---- MODULE Spec2Model ----
(***************************************************************************)
(* tauri-plugin-graphql: the invoke handler installed by init()            *)
(* (src/src/lib.rs:265-320).                                               *)
(*                                                                         *)
(* The handler dispatches on the command name.  "graphql" and              *)
(* "subscriptions" hand an async block to respond_async, which runs it as  *)
(* a task and, when the block returns, resolves the invocation with the    *)
(* Ok value or rejects it with the Err value.  Any other command is        *)
(* rejected inside the handler itself.                                     *)
(*                                                                         *)
(* Each invocation is a process whose position is pc[i].  The GraphQL      *)
(* engine and the window's emit primitive are the environment: what the    *)
(* engine returns, whether a serialization succeeds and whether an emit    *)
(* succeeds are nondeterministic.                                          *)
(***************************************************************************)
EXTENDS Integers, Sequences, FiniteSets, TLC

\* ------------------------------------------------------------------ bounds
\* Number of invocations delivered to the handler.
NumInv == 2
\* Number of items the engine's streams produce in one run, all streams
\* together.
MaxItems == 3

Invocations == 1..NumInv

\* ------------------------------------------------------- inputs of a run
\* Command names: the two endpoints and one name that is neither.
Commands == {"graphql", "subscriptions", "query"}
ValidEndpoints == {"graphql", "subscriptions"}

\* JSON payloads of an invocation, by what the decoders look at: the shape
\* of the value (an object holding a request, an array of requests, or
\* something that is no request) and its "id" member: a number or absent
\* (id is 0 when absent).  Every natural number used here fits u32.
Payloads ==
  { [shape |-> "object", idKind |-> "number", id |-> 7],
    [shape |-> "object", idKind |-> "number", id |-> 8],
    [shape |-> "object", idKind |-> "number", id |-> -1],
    [shape |-> "object", idKind |-> "absent", id |-> 0],
    [shape |-> "array", idKind |-> "absent", id |-> 0],
    [shape |-> "malformed", idKind |-> "absent", id |-> 0] }

\* The invocations a run draws from.  The id member is varied where it is
\* looked at (the subscription decoder).
Requests ==
  { r \in [cmd : Commands, payload : Payloads] :
      \/ r.cmd = "subscriptions" /\ r.payload.shape = "object"
      \/ r.cmd = "graphql" /\ r.payload.idKind = "absent"
      \/ r.cmd = "query" /\ r.payload.idKind = "absent" /\ r.payload.shape = "object" }

NoPayload == [shape |-> "none", idKind |-> "absent", id |-> 0]

\* Responses the engine produces: one without errors, one with errors.
NoErrors == <<>>
Responses ==
  { [data |-> "1", errors |-> NoErrors],
    [data |-> "null", errors |-> <<"resolver error">>] }

NoResponse == [data |-> "none", errors |-> NoErrors]
NoBatch == [batch |-> FALSE, list |-> <<>>]

VARIABLES
  pc,        \* position of each invocation's task
  command,   \* invoke.message.command()
  payload,   \* invoke.message.payload()
  cur,       \* the task's local `resp` / `result` (the engine's last answer)
  str,       \* the task's local `str` (the last serialization)
  ret,       \* value the async block returned to respond_async
  resolved,  \* result channel: values the invocation was resolved with
  rejected,  \* result channel: messages the invocation was rejected with
  events,    \* per event name, the events emitted on the window, in order
  produced,  \* history: items the engine stream has yielded to the task
  ended,     \* history: the engine stream has answered None
  decodes,   \* history: number of payload decodes
  execCalls, \* history: number of engine execute calls
  failure    \* history: first failure met by the task

vars == <<pc, command, payload, cur, str, ret, resolved, rejected, events,
          produced, ended, decodes, execCalls, failure>>

\* ------------------------------------------------------- pure functions

\* serde_json::from_value::<BatchRequest>: a single request or a batch.
BatchRequestDecodes(p) == p.shape \in {"object", "array"}

\* serde_json::from_value::<SubscriptionRequest>: the flattened Request
\* needs an object, and `id` must be present and an unsigned integer.
SubscriptionRequestDecodes(p) ==
  /\ p.shape = "object"
  /\ p.idKind = "number"
  /\ p.id >= 0

\* EventId, changed to leave the id out of the event name.
EventIdWithoutId(id) == <<"graphql://", 0>>

\* format!("graphql://{}", req.id)
EventId(id) == <<"graphql://", id>>

\* The JSON text of one response: `errors` is left out when empty.
ResponseJson(r) ==
  IF r.errors = NoErrors
    THEN [data |-> r.data]
    ELSE [data |-> r.data, errors |-> r.errors]

NoStr == ResponseJson(NoResponse)

\* Response::is_ok
ResponseIsOk(r) == r.errors = NoErrors

\* The JSON text of a batch response: one response, or an array of them.
BatchJson(b) ==
  IF b.batch
    THEN [array |-> [k \in 1..Len(b.list) |-> ResponseJson(b.list[k])]]
    ELSE ResponseJson(b.list[1])

\* BatchIsOk, changed to look at the first response of the batch only.
BatchIsOkFirstOnly(b) == ResponseIsOk(b.list[1])

\* BatchResponse::is_ok: every response of the batch is ok.
BatchIsOk(b) == \A k \in 1..Len(b.list) : ResponseIsOk(b.list[k])

\* What execute_batch may answer for a decoded payload.
BatchResponses(p) ==
  IF p.shape = "array"
    THEN { [batch |-> TRUE, list |-> <<a, b>>] : a \in Responses, b \in Responses }
    ELSE { [batch |-> FALSE, list |-> <<a>>] : a \in Responses }

Unit == <<>>
NoRet == [ok |-> FALSE, value |-> <<"pending">>]
Ok(v) == [ok |-> TRUE, value |-> v]
Err(m) == [ok |-> FALSE, value |-> m]

DecodeError == <<"serde_json: payload does not match the request type">>
EncodeError == <<"serde_json: value cannot be serialized">>
EmitError == <<"tauri: event could not be emitted">>

\* format!("Invalid endpoint \"{}\". Valid endpoints are: ...", cmd)
InvalidEndpoint(cmd) ==
  <<"Invalid endpoint \"", cmd, "\". Valid endpoints are: \"", "graphql",
    "\", \"", "subscriptions", "\".">>

\* Payload of an emitted event: a JSON string holding the serialization,
\* or JSON null for Option::<()>::None.
StringPayload(s) == [null |-> FALSE, string |-> s]
NullPayload == [null |-> TRUE]

\* One emitted event; `by` records the emitting invocation (history).
Event(i, p) == [payload |-> p, by |-> i]

\* The channels some decodable subscription payload names.
Channels == { EventId(p.id) : p \in { q \in Payloads : SubscriptionRequestDecodes(q) } }

\* ----------------------------------------------------------------- Init
Init ==
  /\ pc = [i \in Invocations |-> "idle"]
  /\ command = [i \in Invocations |-> "none"]
  /\ payload = [i \in Invocations |-> NoPayload]
  /\ cur = [i \in Invocations |-> NoBatch]
  /\ str = [i \in Invocations |-> NoStr]
  /\ ret = [i \in Invocations |-> NoRet]
  /\ resolved = [i \in Invocations |-> <<>>]
  /\ rejected = [i \in Invocations |-> <<>>]
  /\ events = [c \in Channels |-> <<>>]
  /\ produced = [i \in Invocations |-> <<>>]
  /\ ended = [i \in Invocations |-> FALSE]
  /\ decodes = [i \in Invocations |-> 0]
  /\ execCalls = [i \in Invocations |-> 0]
  /\ failure = [i \in Invocations |-> "none"]

\* -------------------------------------------------------------- handler

\* Invoke, changed to run every command other than "subscriptions" as
\* "graphql".
InvokeDefaultingToQuery(i, cmd, p) ==
  /\ pc[i] = "idle"
  /\ \A j \in Invocations : j < i => pc[j] # "idle"
  /\ command' = [command EXCEPT ![i] = cmd]
  /\ payload' = [payload EXCEPT ![i] = p]
  /\ pc' = [pc EXCEPT ![i] = IF cmd = "subscriptions" THEN "s_decode" ELSE "q_decode"]
  /\ UNCHANGED <<cur, str, ret, resolved, rejected, events, produced, ended,
                 decodes, execCalls, failure>>

\* The invoke handler: match on the command name.  Invocations are numbered
\* in the order the handler receives them.
Invoke(i, cmd, p) ==
  /\ pc[i] = "idle"
  /\ \A j \in Invocations : j < i => pc[j] # "idle"
  /\ command' = [command EXCEPT ![i] = cmd]
  /\ payload' = [payload EXCEPT ![i] = p]
  /\ IF cmd = "graphql"
       THEN /\ pc' = [pc EXCEPT ![i] = "q_decode"]
            /\ UNCHANGED rejected
       ELSE IF cmd = "subscriptions"
         THEN /\ pc' = [pc EXCEPT ![i] = "s_decode"]
              /\ UNCHANGED rejected
         ELSE /\ pc' = [pc EXCEPT ![i] = "done"]
              /\ rejected' = [rejected EXCEPT ![i] = Append(@, InvalidEndpoint(cmd))]
  /\ UNCHANGED <<cur, str, ret, resolved, events, produced, ended, decodes,
                 execCalls, failure>>

\* The async block returns: `?` on an Err, or the final Ok.  Its locals
\* (resp, result, str) are dropped.
Return(i, r, why) ==
  /\ pc' = [pc EXCEPT ![i] = "returned"]
  /\ ret' = [ret EXCEPT ![i] = r]
  /\ failure' = [failure EXCEPT ![i] = why]
  /\ cur' = [cur EXCEPT ![i] = NoBatch]
  /\ str' = [str EXCEPT ![i] = NoStr]

\* The async block moves on to its next statement.
Goto(i, label) ==
  /\ pc' = [pc EXCEPT ![i] = label]
  /\ UNCHANGED <<ret, failure>>

\* Respond, changed to drop an Err instead of rejecting with it.
RespondDroppingErr(i) ==
  /\ pc[i] = "returned"
  /\ pc' = [pc EXCEPT ![i] = "done"]
  /\ IF ret[i].ok
       THEN resolved' = [resolved EXCEPT ![i] = Append(@, ret[i].value)]
       ELSE UNCHANGED resolved
  /\ UNCHANGED <<command, payload, cur, str, ret, rejected, events, produced,
                 ended, decodes, execCalls, failure>>

\* respond_async: resolve with the Ok value, reject with the Err value.
Respond(i) ==
  /\ pc[i] = "returned"
  /\ pc' = [pc EXCEPT ![i] = "done"]
  /\ IF ret[i].ok
       THEN /\ resolved' = [resolved EXCEPT ![i] = Append(@, ret[i].value)]
            /\ UNCHANGED rejected
       ELSE /\ rejected' = [rejected EXCEPT ![i] = Append(@, ret[i].value)]
            /\ UNCHANGED resolved
  /\ UNCHANGED <<command, payload, cur, str, ret, events, produced, ended,
                 decodes, execCalls, failure>>

\* ------------------------------------------------------- "graphql" task

\* QDecode, changed to go on to the engine whatever the decoder answered.
QDecodeLenient(i) ==
  /\ pc[i] = "q_decode"
  /\ decodes' = [decodes EXCEPT ![i] = @ + 1]
  /\ Goto(i, "q_execute")
  /\ UNCHANGED <<command, payload, cur, str, resolved, rejected, events,
                 produced, ended, execCalls>>

\* Decode the payload as a BatchRequest.
QDecode(i) ==
  /\ pc[i] = "q_decode"
  /\ decodes' = [decodes EXCEPT ![i] = @ + 1]
  /\ IF BatchRequestDecodes(payload[i])
       THEN Goto(i, "q_execute") /\ UNCHANGED <<cur, str>>
       ELSE Return(i, Err(DecodeError), "decode")
  /\ UNCHANGED <<command, payload, resolved, rejected, events, produced,
                 ended, execCalls>>

\* schema.execute_batch(..).await
QExecute(i) ==
  /\ pc[i] = "q_execute"
  /\ execCalls' = [execCalls EXCEPT ![i] = @ + 1]
  /\ \E b \in BatchResponses(payload[i]) : cur' = [cur EXCEPT ![i] = b]
  /\ Goto(i, "q_encode")
  /\ UNCHANGED <<command, payload, str, resolved, rejected, events, produced,
                 ended, decodes>>

\* QEncode, changed to execute the request again when serializing fails.
QEncodeRetrying(i) ==
  /\ pc[i] = "q_encode"
  /\ \/ Return(i, Ok(<<BatchJson(cur[i]), BatchIsOk(cur[i])>>), "none")
     \/ /\ Goto(i, "q_execute")
        /\ UNCHANGED <<cur, str>>
  /\ UNCHANGED <<command, payload, resolved, rejected, events, produced,
                 ended, decodes, execCalls>>

\* serde_json::to_string(&resp), then Ok((str, resp.is_ok())).
QEncode(i) ==
  /\ pc[i] = "q_encode"
  /\ \/ Return(i, Ok(<<BatchJson(cur[i]), BatchIsOk(cur[i])>>), "none")
     \/ Return(i, Err(EncodeError), "encode")
  /\ UNCHANGED <<command, payload, resolved, rejected, events, produced,
                 ended, decodes, execCalls>>

\* ------------------------------------------------- "subscriptions" task

\* SDecode, changed to refuse an id that a subscription still running uses.
SDecodeUniqueIds(i) ==
  /\ pc[i] = "s_decode"
  /\ decodes' = [decodes EXCEPT ![i] = @ + 1]
  /\ IF /\ SubscriptionRequestDecodes(payload[i])
        /\ ~\E j \in Invocations \ {i} :
              /\ command[j] = "subscriptions"
              /\ pc[j] \in {"s_next", "s_encode", "s_emit", "s_sentinel"}
              /\ payload[j].id = payload[i].id
       THEN /\ execCalls' = [execCalls EXCEPT ![i] = @ + 1]
            /\ Goto(i, "s_next")
            /\ UNCHANGED <<cur, str>>
       ELSE /\ Return(i, Err(DecodeError), "decode")
            /\ UNCHANGED execCalls
  /\ UNCHANGED <<command, payload, resolved, rejected, events, produced, ended>>

\* SDecode, changed to acknowledge the invocation when the stream opens.
SDecodeAcknowledging(i) ==
  /\ pc[i] = "s_decode"
  /\ decodes' = [decodes EXCEPT ![i] = @ + 1]
  /\ IF SubscriptionRequestDecodes(payload[i])
       THEN /\ execCalls' = [execCalls EXCEPT ![i] = @ + 1]
            /\ resolved' = [resolved EXCEPT ![i] = Append(@, Unit)]
            /\ Goto(i, "s_next")
            /\ UNCHANGED <<cur, str>>
       ELSE /\ Return(i, Err(DecodeError), "decode")
            /\ UNCHANGED <<execCalls, resolved>>
  /\ UNCHANGED <<command, payload, rejected, events, produced, ended>>

\* Decode the payload as a SubscriptionRequest, open the engine stream
\* (execute_stream builds the stream without awaiting) and name the channel.
SDecode(i) ==
  /\ pc[i] = "s_decode"
  /\ decodes' = [decodes EXCEPT ![i] = @ + 1]
  /\ IF SubscriptionRequestDecodes(payload[i])
       THEN /\ execCalls' = [execCalls EXCEPT ![i] = @ + 1]
            /\ Goto(i, "s_next")
            /\ UNCHANGED <<cur, str>>
       ELSE /\ Return(i, Err(DecodeError), "decode")
            /\ UNCHANGED execCalls
  /\ UNCHANGED <<command, payload, resolved, rejected, events, produced, ended>>

\* Items the engine's streams have produced so far.
RECURSIVE ProducedUpTo(_)
ProducedUpTo(n) == IF n = 0 THEN 0 ELSE Len(produced[n]) + ProducedUpTo(n - 1)

\* stream.next().await answers Some(result): the loop body is entered.
SNextSome(i) ==
  /\ pc[i] = "s_next"
  /\ ProducedUpTo(NumInv) < MaxItems
  /\ \E r \in Responses :
       /\ produced' = [produced EXCEPT ![i] = Append(@, r)]
       /\ cur' = [cur EXCEPT ![i] = [batch |-> FALSE, list |-> <<r>>]]
  /\ Goto(i, "s_encode")
  /\ UNCHANGED <<command, payload, str, resolved, rejected, events, ended,
                 decodes, execCalls>>

\* SNextNone, changed to resolve the invocation when the stream ends, before
\* the sentinel is emitted.
SNextNoneResolving(i) ==
  /\ pc[i] = "s_next"
  /\ ended' = [ended EXCEPT ![i] = TRUE]
  /\ resolved' = [resolved EXCEPT ![i] = Append(@, Unit)]
  /\ Goto(i, "s_sentinel")
  /\ UNCHANGED <<command, payload, cur, str, rejected, events, produced,
                 decodes, execCalls>>

\* SNextNone, changed to leave the block when the stream ends, without
\* emitting the sentinel.
SNextNoneSkippingSentinel(i) ==
  /\ pc[i] = "s_next"
  /\ ended' = [ended EXCEPT ![i] = TRUE]
  /\ Return(i, Ok(Unit), "none")
  /\ UNCHANGED <<command, payload, resolved, rejected, events, produced,
                 decodes, execCalls>>

\* stream.next().await answers None: the loop is left.
SNextNone(i) ==
  /\ pc[i] = "s_next"
  /\ ended' = [ended EXCEPT ![i] = TRUE]
  /\ Goto(i, "s_sentinel")
  /\ UNCHANGED <<command, payload, cur, str, resolved, rejected, events,
                 produced, decodes, execCalls>>

\* SEncode, changed to serialize the first item of the stream every time.
SEncodeFirstItem(i) ==
  /\ pc[i] = "s_encode"
  /\ \/ /\ str' = [str EXCEPT ![i] = ResponseJson(produced[i][1])]
        /\ Goto(i, "s_emit")
        /\ UNCHANGED cur
     \/ Return(i, Err(EncodeError), "encode")
  /\ UNCHANGED <<command, payload, resolved, rejected, events, produced,
                 ended, decodes, execCalls>>

\* serde_json::to_string(&result) of the item just received.
SEncode(i) ==
  /\ pc[i] = "s_encode"
  /\ \/ /\ str' = [str EXCEPT ![i] = ResponseJson(cur[i].list[1])]
        /\ Goto(i, "s_emit")
        /\ UNCHANGED cur
     \/ Return(i, Err(EncodeError), "encode")
  /\ UNCHANGED <<command, payload, resolved, rejected, events, produced,
                 ended, decodes, execCalls>>

\* SEmit, changed to go on with the loop when the emission fails.
SEmitSkippingFailure(i) ==
  /\ pc[i] = "s_emit"
  /\ \/ /\ events' = [events EXCEPT ![EventId(payload[i].id)] =
                       Append(@, Event(i, StringPayload(str[i])))]
        /\ UNCHANGED <<ret, failure>>
     \/ /\ ret' = [ret EXCEPT ![i] = Err(EmitError)]
        /\ failure' = [failure EXCEPT ![i] = "emit"]
        /\ UNCHANGED events
  /\ pc' = [pc EXCEPT ![i] = "s_next"]
  /\ cur' = [cur EXCEPT ![i] = NoBatch]
  /\ str' = [str EXCEPT ![i] = NoStr]
  /\ UNCHANGED <<command, payload, resolved, rejected, produced, ended,
                 decodes, execCalls>>

\* subscription_window.emit(event_id, str); the loop then polls again.
SEmit(i) ==
  /\ pc[i] = "s_emit"
  /\ \/ /\ events' = [events EXCEPT ![EventId(payload[i].id)] =
                       Append(@, Event(i, StringPayload(str[i])))]
        /\ Goto(i, "s_next")
        /\ cur' = [cur EXCEPT ![i] = NoBatch]
        /\ str' = [str EXCEPT ![i] = NoStr]
     \/ /\ Return(i, Err(EmitError), "emit")
        /\ UNCHANGED events
  /\ UNCHANGED <<command, payload, resolved, rejected, produced, ended,
                 decodes, execCalls>>

\* SSentinel, changed to ignore the outcome of the emission.
SSentinelIgnoringFailure(i) ==
  /\ pc[i] = "s_sentinel"
  /\ \/ /\ events' = [events EXCEPT ![EventId(payload[i].id)] =
                       Append(@, Event(i, NullPayload))]
        /\ Return(i, Ok(Unit), "none")
     \/ /\ Return(i, Ok(Unit), "none")
        /\ UNCHANGED events
  /\ UNCHANGED <<command, payload, resolved, rejected, produced, ended,
                 decodes, execCalls>>

\* SSentinel, changed to emit the sentinel and go on polling the stream.
SSentinelInsideLoop(i) ==
  /\ pc[i] = "s_sentinel"
  /\ events' = [events EXCEPT ![EventId(payload[i].id)] =
                  Append(@, Event(i, NullPayload))]
  /\ Goto(i, "s_next")
  /\ UNCHANGED <<command, payload, cur, str, resolved, rejected, produced,
                 ended, decodes, execCalls>>

\* subscription_window.emit(event_id, Option::<()>::None), then Ok(()).
SSentinel(i) ==
  /\ pc[i] = "s_sentinel"
  /\ \/ /\ events' = [events EXCEPT ![EventId(payload[i].id)] =
                       Append(@, Event(i, NullPayload))]
        /\ Return(i, Ok(Unit), "none")
     \/ /\ Return(i, Err(EmitError), "emit")
        /\ UNCHANGED events
  /\ UNCHANGED <<command, payload, resolved, rejected, produced, ended,
                 decodes, execCalls>>

Next ==
  \/ \E i \in Invocations, r \in Requests : Invoke(i, r.cmd, r.payload)
  \/ \E i \in Invocations : Respond(i)
  \/ \E i \in Invocations : QDecode(i)
  \/ \E i \in Invocations : QExecute(i)
  \/ \E i \in Invocations : QEncode(i)
  \/ \E i \in Invocations : SDecode(i)
  \/ \E i \in Invocations : SNextSome(i)
  \/ \E i \in Invocations : SNextNone(i)
  \/ \E i \in Invocations : SEncode(i)
  \/ \E i \in Invocations : SEmit(i)
  \/ \E i \in Invocations : SSentinel(i)

Spec == Init /\ [][Next]_vars

\* The next step of the task of invocation i, whichever it is.
Step(i) ==
  \/ QDecode(i) \/ QExecute(i) \/ QEncode(i)
  \/ SDecode(i) \/ SNextSome(i) \/ SNextNone(i) \/ SEncode(i) \/ SEmit(i)
  \/ SSentinel(i)
  \/ Respond(i)

\* The async runtime goes on running every spawned task, and the engine
\* answers every await: a finite stream answers every stream.next().
FairSpec == Spec /\ \A i \in Invocations : WF_vars(Step(i))

\* -----------------------------------------------------------------
\* Observations used by the properties below
\* -----------------------------------------------------------------

IsQuery(i) == command[i] = "graphql"
IsSubscription(i) == command[i] = "subscriptions"

\* Subscription invocations whose payload decodes.
Subs == { i \in Invocations :
            IsSubscription(i) /\ SubscriptionRequestDecodes(payload[i]) }

\* Query invocations whose payload decodes.
Queries == { i \in Invocations :
               IsQuery(i) /\ BatchRequestDecodes(payload[i]) }

\* Number of outcomes on the result channel of invocation i.
Outcomes(i) == Len(resolved[i]) + Len(rejected[i])

\* The events invocation i has emitted on channel c, in order.
EmittedOn(i, c) == SelectSeq(events[c], LAMBDA e : e.by = i)

\* Invocation i has emitted nothing, on any channel.
EmittedNothing(i) == \A c \in Channels : EmittedOn(i, c) = <<>>

\* The events invocation i (a decoded subscription) emitted on its channel.
Own(i) == EmittedOn(i, EventId(payload[i].id))

\* Number of null events among the events of a sequence.
Nulls(s) == Cardinality({ k \in 1..Len(s) : s[k].payload = NullPayload })

\* The result events the items of invocation i's stream serialize to.
ResultEvents(i) ==
  [k \in 1..Len(produced[i]) |->
     Event(i, StringPayload(ResponseJson(produced[i][k])))]

\* The complete event sequence of a subscription that ran to its end.
CompleteEvents(i) == Append(ResultEvents(i), Event(i, NullPayload))

IsPrefix(s, t) == Len(s) <= Len(t) /\ \A k \in 1..Len(s) : s[k] = t[k]

\* -----------------------------------------------------------------
\* C1  Acknowledgement of a subscription
\* -----------------------------------------------------------------

\* C1 as stated: the invocation is resolved as soon as the stream is opened,
\* without waiting for the first item: once the stream has delivered an item
\* to the task, the result channel has already been resolved.
C1_ResolvedWhenStreamOpened ==
  \A i \in Subs : Len(produced[i]) >= 1 => Len(resolved[i]) = 1

\* C1 (amended): a subscription whose payload decodes is resolved only after
\* its engine stream has ended and its null sentinel has been emitted; the
\* resolve (with the unit value) is never observed while the stream is still
\* producing or before the events of the invocation.
C1_ResolvedOnlyAfterStreamEnd ==
  \A i \in Subs :
    resolved[i] # <<>> =>
      /\ resolved[i] = <<Unit>>
      /\ ended[i]
      /\ Own(i) = CompleteEvents(i)
      /\ pc[i] = "done"

\* A subscription that produced items has been resolved.
C1_Witness ==
  \E i \in Subs : resolved[i] = <<Unit>> /\ Len(produced[i]) >= 1

\* -----------------------------------------------------------------
\* C2  Outcome of a subscription
\* -----------------------------------------------------------------

\* C2 as stated: whatever the stream yields and the transport does, a
\* subscription whose payload decodes ends with exactly one resolve and with
\* result events followed by exactly one null event.
C2_AlwaysResolvedAndTerminated ==
  \A i \in Subs :
    pc[i] = "done" =>
      /\ Len(resolved[i]) = 1
      /\ rejected[i] = <<>>
      /\ Nulls(Own(i)) = 1

\* C2 (amended): a subscription whose payload decodes has at most one outcome
\* on its result channel and exactly one when its task is over.  The outcome
\* is a resolve when the stream ended and every serialization and emission
\* succeeded, and then its events are the result events followed by exactly
\* one null event; it is a reject when a serialization or an emission
\* failed, and then its events are result events only, with no null event.
C2_OneOutcomeResolveOrReject ==
  \A i \in Subs :
    /\ Outcomes(i) <= 1
    /\ pc[i] = "done" => Outcomes(i) = 1
    /\ Len(resolved[i]) = 1 =>
         /\ failure[i] = "none"
         /\ Own(i) = CompleteEvents(i)
         /\ Nulls(Own(i)) = 1
    /\ Len(rejected[i]) = 1 =>
         /\ failure[i] \in {"encode", "emit"}
         /\ IsPrefix(Own(i), ResultEvents(i))
         /\ Nulls(Own(i)) = 0

\* One subscription was resolved after emitting results and another was
\* rejected after a failed emission.
C2_Witness ==
  \E i, j \in Subs :
    /\ pc[i] = "done" /\ Len(resolved[i]) = 1 /\ Len(Own(i)) >= 2
    /\ pc[j] = "done" /\ Len(rejected[j]) = 1 /\ failure[j] = "emit"

\* -----------------------------------------------------------------
\* C3  Sentinel-terminated event sequence
\* -----------------------------------------------------------------

\* C3 as stated: a subscription whose engine stream ended has emitted one
\* result event per item, then exactly one null event.
C3_EndedStreamHasNull ==
  \A i \in Subs :
    ended[i] /\ pc[i] \in {"returned", "done"} => Own(i) = CompleteEvents(i)

\* C3 (amended): the events of a subscription are, in order, one result
\* event per item of the stream, then at most one null event and nothing
\* after it; the null event is never emitted before the stream is exhausted;
\* and when the stream ended and the emission of the sentinel succeeded, the
\* events are exactly the result events of all items, then one null event.
C3_SentinelTerminatedSequence ==
  \A i \in Subs :
    /\ IsPrefix(Own(i), CompleteEvents(i))
    /\ Nulls(Own(i)) <= 1
    /\ Nulls(Own(i)) = 1 => ended[i] /\ Own(i) = CompleteEvents(i)
    /\ ended[i] /\ pc[i] \in {"returned", "done"} /\ failure[i] = "none" =>
         Own(i) = CompleteEvents(i)
    /\ ended[i] /\ failure[i] = "emit" => Own(i) = ResultEvents(i)

\* A stream of two items ended and their events and the null were emitted.
C3_Witness ==
  \E i \in Subs :
    /\ ended[i]
    /\ Len(produced[i]) = 2
    /\ Own(i) = CompleteEvents(i)

\* -----------------------------------------------------------------
\* C4  One terminal outcome for the query endpoint
\* -----------------------------------------------------------------

\* C4: a `graphql` invocation never has more than one outcome on its result
\* channel (a resolve or a reject, never both), and has exactly one when its
\* task is over, whether the payload decoded or not and whatever the engine
\* answered.
C4_QueryExactlyOneOutcome ==
  \A i \in Invocations :
    IsQuery(i) =>
      /\ Outcomes(i) <= 1
      /\ pc[i] = "done" => Outcomes(i) = 1
      /\ pc[i] # "done" => Outcomes(i) = 0

\* A query with errors in its response was resolved and another query was
\* rejected.
C4_Witness ==
  \E i, j \in Invocations :
    /\ IsQuery(i) /\ pc[i] = "done" /\ Len(resolved[i]) = 1
    /\ resolved[i][1][2] = FALSE
    /\ IsQuery(j) /\ pc[j] = "done" /\ Len(rejected[j]) = 1

\* -----------------------------------------------------------------
\* C5  GraphQL-level errors are not bridge failures
\* -----------------------------------------------------------------

\* The engine's answer to query i, read back from the text it was resolved
\* with: the responses of a batch, or the single response.
ResolvedResponses(i) ==
  LET json == resolved[i][1][1]
  IN  IF "array" \in DOMAIN json
        THEN { json.array[k] : k \in DOMAIN json.array }
        ELSE { json }

\* C5 as stated: a `graphql` invocation whose payload decodes always
\* resolves and never rejects, whatever the engine returns.
C5_DecodedQueryNeverRejects ==
  \A i \in Queries : rejected[i] = <<>> /\ (pc[i] = "done" => Len(resolved[i]) = 1)

\* C5 (amended): a `graphql` invocation whose payload decodes and whose
\* response serializes resolves (never rejects) with the pair (serialized
\* response, ok), where ok is true exactly when no response of the engine's
\* answer contains errors; it is rejected only when serializing the response
\* fails.
C5_ErrorsResolveWithFlag ==
  \A i \in Queries :
    /\ pc[i] = "done" /\ failure[i] = "none" =>
         /\ rejected[i] = <<>>
         /\ Len(resolved[i]) = 1
         /\ resolved[i][1][2] =
              (\A r \in ResolvedResponses(i) : "errors" \notin DOMAIN r)
    /\ rejected[i] # <<>> => failure[i] = "encode" /\ rejected[i] = <<EncodeError>>

\* A batch with errors in one of its two responses was resolved with ok false.
C5_Witness ==
  \E i \in Queries :
    /\ payload[i].shape = "array"
    /\ Len(resolved[i]) = 1
    /\ resolved[i][1][2] = FALSE
    /\ \E r \in ResolvedResponses(i) : "errors" \notin DOMAIN r

\* -----------------------------------------------------------------
\* C6  Decode failure
\* -----------------------------------------------------------------

\* The payload of invocation i decodes as the request type of its endpoint.
PayloadDecodes(i) ==
  IF IsQuery(i)
    THEN BatchRequestDecodes(payload[i])
    ELSE SubscriptionRequestDecodes(payload[i])

\* Invocations of one of the two endpoints whose payload does not decode.
Undecodable ==
  { i \in Invocations : command[i] \in ValidEndpoints /\ ~PayloadDecodes(i) }

\* C6: an invocation of either endpoint whose payload does not decode as the
\* expected request is rejected and never resolved, the engine is never asked
\* to execute anything for it, and it emits no event on any channel.
C6_DecodeFailureOnlyRejects ==
  \A i \in Undecodable :
    /\ resolved[i] = <<>>
    /\ execCalls[i] = 0
    /\ produced[i] = <<>>
    /\ EmittedNothing(i)
    /\ Len(rejected[i]) <= 1
    /\ pc[i] = "done" => rejected[i] = <<DecodeError>>

\* A subscription without a usable id and a malformed query were rejected.
C6_Witness ==
  \E i, j \in Undecodable :
    /\ IsSubscription(i) /\ payload[i].shape = "object" /\ pc[i] = "done"
    /\ IsQuery(j) /\ pc[j] = "done"
    /\ rejected[i] = <<DecodeError>> /\ rejected[j] = <<DecodeError>>

\* -----------------------------------------------------------------
\* C7  Unknown command
\* -----------------------------------------------------------------

Contains(msg, word) == \E k \in 1..Len(msg) : msg[k] = word

\* Invocations received with a command that names no endpoint.
Unknown ==
  { i \in Invocations : pc[i] # "idle" /\ command[i] \notin ValidEndpoints }

\* C7: an invocation whose command is neither `graphql` nor `subscriptions`
\* is rejected inside the handler (it is over as soon as it is received),
\* never resolved, with a message that contains the command and both valid
\* names; its payload is not decoded, the engine is not called and no event
\* is emitted.
C7_UnknownCommandRejected ==
  \A i \in Unknown :
    /\ pc[i] = "done"
    /\ resolved[i] = <<>>
    /\ Len(rejected[i]) = 1
    /\ Contains(rejected[i][1], command[i])
    /\ Contains(rejected[i][1], "graphql")
    /\ Contains(rejected[i][1], "subscriptions")
    /\ ret[i] = NoRet
    /\ decodes[i] = 0
    /\ execCalls[i] = 0
    /\ produced[i] = <<>>
    /\ EmittedNothing(i)

\* An unknown command was received while a subscription was emitting.
C7_Witness ==
  \E i \in Unknown, j \in Subs : Own(j) # <<>> /\ Len(rejected[i]) = 1

\* -----------------------------------------------------------------
\* C8  Order preservation
\* -----------------------------------------------------------------

\* The result (non-null) events of subscription i, in order of emission.
Results(i) == SelectSeq(Own(i), LAMBDA e : e.payload # NullPayload)

\* C8: the k-th result event of a subscription carries the serialization of
\* the k-th item its stream produced (none reordered, duplicated or
\* skipped), and the stream is asked for its next item only when every item
\* it produced so far has been emitted.
C8_OrderPreserved ==
  \A i \in Subs :
    /\ Len(Results(i)) <= Len(produced[i])
    /\ Len(produced[i]) <= Len(Results(i)) + 1
    /\ \A k \in 1..Len(Results(i)) :
         Results(i)[k].payload = StringPayload(ResponseJson(produced[i][k]))
    /\ pc[i] \in {"s_next", "s_sentinel"} => Len(Results(i)) = Len(produced[i])

\* Two different items were emitted, and a third is being requested.
C8_Witness ==
  \E i \in Subs :
    /\ Len(Results(i)) = 2
    /\ produced[i][1] # produced[i][2]
    /\ pc[i] = "s_next"

\* -----------------------------------------------------------------
\* C9  First failure aborts a subscription
\* -----------------------------------------------------------------

\* Subscriptions in which a serialization or an emission has failed.
Failed == { i \in Subs : failure[i] \in {"encode", "emit"} }

\* The failure is the outcome of the invocation: its task has returned the
\* Err, the invocation is never resolved, it is rejected with that Err when
\* the task is over, and no null event was emitted for it.
FailureIsOutcome(i) ==
  /\ pc[i] \in {"returned", "done"}
  /\ ret[i] = Err(IF failure[i] = "encode" THEN EncodeError ELSE EmitError)
  /\ resolved[i] = <<>>
  /\ Len(rejected[i]) <= 1
  /\ pc[i] = "done" => rejected[i] = <<ret[i].value>>
  /\ Nulls(Own(i)) = 0

\* After the failure the stream is not polled and nothing is emitted.
NothingAfterFailure(i) ==
  /\ produced'[i] = produced[i]
  /\ ended'[i] = ended[i]
  /\ execCalls'[i] = execCalls[i]
  /\ \A c \in Channels :
       SelectSeq(events'[c], LAMBDA e : e.by = i) = EmittedOn(i, c)

\* C9: when serializing an item or emitting an event (a result or the
\* sentinel) fails, the failure becomes the reject of the invocation, the
\* stream is not polled again and the invocation emits nothing further, not
\* even the null sentinel.
C9_FirstFailureAborts ==
  /\ [](\A i \in Failed : FailureIsOutcome(i))
  /\ [][\A i \in Failed : NothingAfterFailure(i)]_vars

\* Three kinds of failure ended in a reject: an item that did not
\* serialize, a result that could not be emitted after an earlier one was,
\* and a sentinel that could not be emitted.
C9_Witness ==
  \E i, j \in Failed :
    /\ pc[i] = "done" /\ pc[j] = "done"
    /\ failure[i] = "encode" /\ rejected[i] = <<EncodeError>>
    /\ failure[j] = "emit" /\ rejected[j] = <<EmitError>>
    /\ \/ Len(produced[j]) = 2 /\ Len(Own(j)) = 1
       \/ ended[j]

\* -----------------------------------------------------------------
\* C10  Channel isolation
\* -----------------------------------------------------------------

\* The subscriptions of the run have pairwise distinct ids.
DistinctIds ==
  \A i, j \in Subs : i # j => payload[i].id # payload[j].id

\* C10: when the subscriptions have pairwise distinct ids, every event of
\* subscription N is emitted on `graphql://N` only, and what each channel
\* carries is exactly its subscription's own events: its results in order,
\* then its null; other subscriptions and `graphql` invocations add nothing
\* to it.
C10_ChannelIsolation ==
  DistinctIds =>
    /\ \A i \in Subs :
         /\ events[EventId(payload[i].id)] = Own(i)
         /\ IsPrefix(events[EventId(payload[i].id)], CompleteEvents(i))
         /\ Len(resolved[i]) = 1 =>
              events[EventId(payload[i].id)] = CompleteEvents(i)
         /\ \A c \in Channels \ {EventId(payload[i].id)} : EmittedOn(i, c) = <<>>
    /\ \A i \in Invocations \ Subs : EmittedNothing(i)
    /\ \A c \in Channels :
         events[c] # <<>> => \E i \in Subs : c = EventId(payload[i].id)

\* Two subscriptions with different ids are both in their loops and both
\* have emitted.
C10_Witness ==
  \E i, j \in Subs :
    /\ payload[i].id # payload[j].id
    /\ pc[i] = "s_emit" /\ pc[j] \in {"s_next", "s_encode", "s_emit"}
    /\ Len(Own(i)) = 1 /\ Len(Own(j)) = 1

\* -----------------------------------------------------------------
\* C11  Exactly-once execution
\* -----------------------------------------------------------------

\* The task of invocation i is past the statement that calls the engine.
PastExecute(i) ==
  IF IsQuery(i)
    THEN pc[i] \in {"q_encode", "returned", "done"}
    ELSE pc[i] \notin {"idle", "s_decode"}

\* C11: the engine's execute call (execute_batch for `graphql`,
\* execute_stream for `subscriptions`) is made exactly once for an invocation
\* whose payload decodes and never for any other; the payload is decoded at
\* most once; no call is repeated after an error; and a `graphql` invocation
\* emits no event.
C11_ExecutedExactlyOnce ==
  \A i \in Invocations :
    /\ decodes[i] <= 1
    /\ execCalls[i] <= 1
    /\ i \in Subs \cup Queries /\ PastExecute(i) => execCalls[i] = 1
    /\ i \notin Subs \cup Queries => execCalls[i] = 0
    /\ failure[i] # "none" /\ pc[i] = "done" =>
         execCalls[i] = (IF failure[i] = "decode" THEN 0 ELSE 1)
    /\ IsQuery(i) => EmittedNothing(i) /\ produced[i] = <<>>

\* A query whose response did not serialize and a subscription whose
\* emission failed are both over, each after one engine call.
C11_Witness ==
  \E i \in Queries, j \in Subs :
    /\ pc[i] = "done" /\ failure[i] = "encode" /\ execCalls[i] = 1
    /\ pc[j] = "done" /\ failure[j] = "emit" /\ execCalls[j] = 1

\* -----------------------------------------------------------------
\* C12  A subscription runs to completion
\* -----------------------------------------------------------------

\* Subscription i is over and none of its serializations or emissions failed.
Completed(i) == pc[i] = "done" /\ failure[i] = "none"

\* C12: under fair scheduling, every subscription whose payload decodes and
\* whose stream is finite reaches a terminal outcome, and one whose
\* serializations and emissions all succeeded has then emitted the null
\* sentinel and is resolved; as long as the stream has not ended the
\* sentinel is not emitted and the invocation is not resolved.
C12_RunsToCompletion ==
  /\ \A i \in Invocations : (i \in Subs) ~> (pc[i] = "done" /\ Outcomes(i) = 1)
  /\ [](\A i \in Subs :
          Completed(i) => ended[i] /\ Nulls(Own(i)) = 1 /\ resolved[i] = <<Unit>>)
  /\ [](\A i \in Subs : ~ended[i] => Nulls(Own(i)) = 0 /\ resolved[i] = <<>>)

\* A subscription whose stream produced every item of the run is over, with
\* the sentinel emitted.
C12_Witness ==
  \E i \in Subs :
    /\ Completed(i)
    /\ Len(produced[i]) = MaxItems
    /\ Nulls(Own(i)) = 1

\* -----------------------------------------------------------------
\* C13  The terminal outcome is last
\* -----------------------------------------------------------------

\* Invocation i emits nothing in this step.
EmitsNothing(i) ==
  \A c \in Channels :
    SelectSeq(events'[c], LAMBDA e : e.by = i) = EmittedOn(i, c)

\* The last event subscription i emitted is the null sentinel.
NullIsLast(i) ==
  /\ Own(i) # <<>>
  /\ Own(i)[Len(Own(i))].payload = NullPayload

\* C13: the result channel of a subscription is resolved or rejected only
\* after the last emission of the invocation: the step that delivers the
\* outcome emits nothing, once the invocation has an outcome it emits no
\* event and its stream is not polled, and a resolve implies that the null
\* sentinel was emitted before it, as the last event.
C13_OutcomeIsLast ==
  /\ [][\A i \in Subs :
          Outcomes(i)' > Outcomes(i) \/ Outcomes(i) >= 1 =>
            /\ EmitsNothing(i)
            /\ produced'[i] = produced[i]]_vars
  /\ [][\A i \in Subs :
          Len(resolved'[i]) > Len(resolved[i]) =>
            NullIsLast(i) /\ pc[i] = "returned"]_vars
  /\ [](\A i \in Subs : Outcomes(i) >= 1 => pc[i] = "done")

\* A subscription was rejected after it had emitted one result, and another
\* was resolved after its sentinel.
C13_Witness ==
  \E i, j \in Subs :
    /\ Len(rejected[i]) = 1 /\ failure[i] = "encode" /\ Len(Own(i)) = 1
    /\ Len(resolved[j]) = 1 /\ NullIsLast(j)

\* -----------------------------------------------------------------
\* C14  Ids are not checked for uniqueness
\* -----------------------------------------------------------------

\* The subscriptions whose payload decodes with the id of subscription i.
SameId(i) == { j \in Subs : payload[j].id = payload[i].id }

RECURSIVE EmittedBy(_)
\* Number of events the subscriptions of set S emitted on their channels.
EmittedBy(S) ==
  IF S = {} THEN 0
  ELSE LET j == CHOOSE x \in S : TRUE
       IN  Len(Own(j)) + EmittedBy(S \ {j})

\* C14: a subscription whose id is that of another subscription, running or
\* over, is accepted and run like any other: its payload decodes, its stream
\* is opened, and its own events are its results in order, then its null.
\* All subscriptions with that id emit on the one channel `graphql://{id}`,
\* which carries the events of all of them and as many null events as there
\* are subscriptions with that id that emitted their sentinel.
C14_SharedChannelForEqualIds ==
  \A i \in Subs :
    LET c == EventId(payload[i].id)
    IN  /\ pc[i] \notin {"idle", "s_decode"} =>
             execCalls[i] = 1 /\ failure[i] # "decode"
        /\ IsPrefix(Own(i), CompleteEvents(i))
        /\ \A d \in Channels \ {c} : EmittedOn(i, d) = <<>>
        /\ Len(events[c]) = EmittedBy(SameId(i))
        /\ Nulls(events[c]) =
             Cardinality({ j \in SameId(i) : Nulls(Own(j)) = 1 })

\* Two subscriptions with the same id ran at the same time: the channel
\* carries a result of the first, then the null of the second, then a
\* further result, and two null events in all.
C14_Witness ==
  \E i, j \in Subs :
    /\ i # j
    /\ payload[i].id = payload[j].id
    /\ LET s == events[EventId(payload[i].id)]
       IN  /\ Nulls(s) = 2
           /\ \E k, l, m \in 1..Len(s) :
                /\ k < l /\ l < m
                /\ s[k].by = i /\ s[k].payload # NullPayload
                /\ s[l].by = j /\ s[l].payload = NullPayload
                /\ s[m].by = i /\ s[m].payload # NullPayload

====
